---------------------------- MODULE Spec2Model ----------------------------
(***************************************************************************)
(* docker-maid: the scheduler loop of main.rs, one housekeeping round of   *)
(* maid.rs (container refresh, images prune, build-cache prune) and the    *)
(* helpers of utils.rs.                                                    *)
(*                                                                         *)
(* The process is single threaded (tokio current_thread): a step of the    *)
(* model is the code between two awaits, ending with the runtime call the  *)
(* code awaits there.  The container runtime is the environment: every     *)
(* runtime call returns a nondeterministically chosen success or error.    *)
(*                                                                         *)
(* Strings the code looks into (identifiers, HOSTNAME, image references)   *)
(* are sequences of one-character strings; Option<T> is <<>> (None) or     *)
(* <<x>> (Some(x)).                                                        *)
(***************************************************************************)
EXTENDS Naturals, Sequences, FiniteSets

\* ------------------------------------------------------------------ bounds

\* The longest listing list_containers returns.
MaxContainers == 2

\* The longest progress stream of a pull.
MaxStream == 2

\* The most path components of an image reference given to pull_image.
MaxPath == 2

\* -------------------------------------------------------------- Option<T>

None == <<>>

Some(x) == <<x>>

Opt(S) == {None} \cup {Some(x) : x \in S}

IsSome(o) == o # None

IsNone(o) == o = None

Unwrap(o) == o[1]

\* Option::unwrap_or_default
UnwrapOr(o, d) == IF IsSome(o) THEN o[1] ELSE d

\* ------------------------------------------------------------ str helpers

\* str::starts_with
StartsWith(s, prefix) ==
    /\ Len(prefix) <= Len(s)
    /\ \A k \in 1..Len(prefix) : s[k] = prefix[k]

\* str::contains(char)
Contains(s, ch) == \E k \in 1..Len(s) : s[k] = ch

\* ------------------------------------------------------------------ enums

UpdateModes == {"None", "Notify", "Update", "Label"}

ImagesPruneModes == {"None", "Dangling", "All"}

\* enums::BuildPruneMode is used by maid.rs and main.rs; its declaration is
\* not among the source files.  Only the variant None is named by the code.
BuildPruneModes == {"None", "All"}

\* bollard's ContainerSummaryStateEnum, the variants the model draws from.
RUNNING == "running"

ContainerStates == {RUNNING, "exited"}

\* ------------------------------------------------------- runtime's values

\* Container identifiers of the inventory, and those create returns.
ContainerIds == {<<"a", "b", "c">>, <<"b">>}

NewContainerIds == {<<"c", "d">>, <<"d", "c">>}

\* What HOSTNAME may hold when it is set.
HostNames == {<<>>, <<"a", "b">>}

\* Image references: without a tag, with a tag.
ImageRefs == {<<"i">>, <<"i", ":", "t">>}

\* Image content IDs.
ImageIds == {"sha:1", "sha:2"}

\* ContainerSummary.names
NamesLists == {<< <<"/", "w">> >>}

\* The fields of bollard's ContainerSummary the code reads.
ContainerSummaries ==
    [id : Opt(ContainerIds),
     names : Opt(NamesLists),
     state : Opt(ContainerStates),
     image : Opt(ImageRefs),
     image_id : Opt({"sha:1"})]

\* The loop variable before the first record is taken.
NoContainer ==
    [id |-> None, names |-> None, state |-> None, image |-> None, image_id |-> None]

\* ImageInspect: the fields the code reads.
ImageInspects == [id : {Some(d) : d \in ImageIds}, repo_digests : Opt({<<>>, <<"r@sha">>})]

\* ContainerInspectResponse: the fields the code reads.
ContainerConfigs ==
    [image : {"img"}, cmd : {"cmd"}, env : {{}, {"K=V"}}, labels : {"labels"},
     exposed_ports : {{"80/tcp"}}]

NetworkSettingsSet == [networks : Opt({{"bridge", "backend"}})]

HostConfigs == [mounts : {{}, {"m1", "m2"}}]

ContainerInspects ==
    [config : Opt(ContainerConfigs),
     network_settings : Opt(NetworkSettingsSet),
     host_config : Opt(HostConfigs),
     name : Opt({<<"/", "w">>}),
     platform : Opt({"linux"})]

\* Result<T, E>
Ok(x) == [ok |-> TRUE, val |-> x]

Err == [ok |-> FALSE, val |-> None]

\* An entry of the log of runtime calls: the operation, what it was given,
\* whether the runtime answered with success, and the part of the answer
\* the code reads (None when it reads nothing of it).
Call(op, arg, ok, ret) == [op |-> op, arg |-> arg, ok |-> ok, ret |-> ret]

\* ------------------------------------------------- the code's decisions

\* A variant of IsOwnContainer: an empty HOSTNAME counts as unset.
IsOwnContainerNonEmpty(sid, current_container_id) ==
    /\ IsSome(sid)
    /\ Unwrap(sid) # <<>>
    /\ StartsWith(current_container_id, Unwrap(sid))

\* A variant of IsOwnContainer: the identifier compared for equality.
IsOwnContainerEq(sid, current_container_id) ==
    /\ IsSome(sid)
    /\ current_container_id = Unwrap(sid)

\* update_images: `if current_container_id.starts_with(sid)` under
\* `if let Some(ref sid) = self_id`.
IsOwnContainer(sid, current_container_id) ==
    /\ IsSome(sid)
    /\ StartsWith(current_container_id, Unwrap(sid))

\* A variant of SkipReason: the check of the name left out.
SkipReasonNoName(c, sid) ==
    IF IsNone(c.id) THEN "id"
    ELSE IF IsOwnContainer(sid, Unwrap(c.id)) THEN "own"
    ELSE IF IsNone(c.state) THEN "state"
    ELSE IF IsNone(c.image) THEN "image"
    ELSE IF IsNone(c.image_id) THEN "image_id"
    ELSE "none"

\* update_images: the checks at the head of the loop body, in the code's
\* order; "none" when the record goes on to the image inspect.
SkipReason(c, sid) ==
    IF IsNone(c.id) THEN "id"
    ELSE IF IsOwnContainer(sid, Unwrap(c.id)) THEN "own"
    ELSE IF IsNone(c.names) THEN "name"
    ELSE IF IsNone(c.state) THEN "state"
    ELSE IF IsNone(c.image) THEN "image"
    ELSE IF IsNone(c.image_id) THEN "image_id"
    ELSE "none"

\* A variant of SkipsAfterFirstInspect: an absent list of repo digests
\* skips, a present and empty one does not.
SkipsAfterFirstInspectAbsentOnly(res) ==
    /\ res.ok
    /\ IsNone(res.val.repo_digests)

\* update_images: the match on the first inspect_image.  Only the Ok arm
\* with no repo digests has a `continue`; the Err arm logs and falls
\* through to the pull.
SkipsAfterFirstInspect(res) ==
    /\ res.ok
    /\ UnwrapOr(res.val.repo_digests, <<>>) = <<>>

\* pull_image: the reference handed to create_image.
LatestTag == <<":", "l", "a", "t", "e", "s", "t">>

FullImageName(image_name) ==
    IF Contains(image_name, ":") THEN image_name ELSE image_name \o LatestTag

\* update_images: `if &latest_digest == current_digest && false`.
DigestUnchanged(latest, current) == (latest = current) /\ FALSE

\* A variant of ShouldRecreate: Label recreates as Update does.
ShouldRecreateOrLabel(mode) == mode \in {"Update", "Label"}

\* A variant of ShouldRecreate: every mode that reaches update_images.
ShouldRecreateNotNone(mode) == mode # "None"

\* update_images: `if update_mode == &ContainersUpdateMode::Update`.
ShouldRecreate(mode) == mode = "Update"

\* A variant of WasRunning: the new container is always started.
WasRunningAlways(container_state) == TRUE

\* update_container: `if container_state == &ContainerSummaryStateEnum::RUNNING`.
WasRunning(container_state) == container_state = RUNNING

\* A variant of StartTarget: the identifier of the removed container.
StartTargetOld(current_container_id, create_container_response) ==
    current_container_id

\* update_container: the identifier given to start_container.
StartTarget(current_container_id, create_container_response) ==
    create_container_response.id

\* update_container: CreateContainerOptions.
CreateOptions(container_inspect) ==
    [name |-> UnwrapOr(container_inspect.name, <<>>),
     platform |-> UnwrapOr(container_inspect.platform, "")]

\* update_container: the ContainerConfig serialised and read back as a
\* ContainerCreateBody (the fields of the process configuration; the body's
\* host_config and networking_config are absent from ContainerConfig).
BodyFromConfig(config) ==
    [image |-> config.image, cmd |-> config.cmd, env |-> config.env,
     labels |-> config.labels, exposed_ports |-> config.exposed_ports,
     host_config |-> None, networking_config |-> None]

\* A variant of CreateBody: the body read back from the process
\* configuration is used as it is, without the merge.
CreateBodyConfigOnly(config, network_settings, host_config) ==
    BodyFromConfig(config)

\* update_container: ContainerCreateBody { host_config, networking_config,
\* ..container_create_body_config_only }.
CreateBody(config, network_settings, host_config) ==
    [BodyFromConfig(config) EXCEPT
        !.host_config = Some(host_config),
        !.networking_config = Some([endpoints_config |-> network_settings.networks])]

\* update_container: the first `?` that returns, "" when none does.
SnapshotError(res) ==
    IF ~res.ok THEN "inspect"
    ELSE IF IsNone(res.val.config) THEN "config"
    ELSE IF IsNone(res.val.network_settings) THEN "network_settings"
    ELSE IF IsNone(res.val.host_config) THEN "host_config"
    ELSE ""

\* ------------------------------------------------------------------ state

VARIABLES
    pc,                     \* where the process is
    update_mode,            \* housekeeping: ContainersUpdateMode::from_env()
    images_prune_mode,      \* housekeeping: ImagesPruneMode::from_env()
    build_cache_prune_mode, \* housekeeping: BuildPruneMode::from_env()
    self_id,                \* update_images: env::var("HOSTNAME").ok()
    listed,                 \* "no", "ok" or "err": the round's list_containers
    containers_len,         \* containers.len()
    taken,                  \* records the for loop has taken from the listing
    container,              \* the loop variable
    latest_digest,          \* update_images: Option, set by the second inspect
    create_options,         \* update_container: create_container_options
    create_body,            \* update_container: container_create_body
    create_response,        \* update_container: create_container_response
    uc_result,              \* what update_container returned to update_images
    calls,                  \* runtime calls issued for the record `container`
    round_calls             \* the round's other runtime calls (list, prunes)

vars ==
    <<pc, update_mode, images_prune_mode, build_cache_prune_mode, self_id,
      listed, containers_len, taken, container, latest_digest, create_options,
      create_body, create_response, uc_result, calls, round_calls>>

env_vars == <<update_mode, images_prune_mode, build_cache_prune_mode, self_id>>

list_vars == <<listed, containers_len>>

uc_vars == <<create_options, create_body, create_response>>

NoOptions == [name |-> <<>>, platform |-> ""]

NoBody == None

NoResponse == None

Init ==
    /\ pc = "main"
    /\ update_mode = "None"
    /\ images_prune_mode = "None"
    /\ build_cache_prune_mode = "None"
    /\ self_id = None
    /\ listed = "no"
    /\ containers_len = 0
    /\ taken = 0
    /\ container = NoContainer
    /\ latest_digest = None
    /\ create_options = NoOptions
    /\ create_body = NoBody
    /\ create_response = NoResponse
    /\ uc_result = None
    /\ calls = <<>>
    /\ round_calls = <<>>

\* --------------------------------------------------------- control flow

\* housekeeping: `if build_cache_prune_mode != BuildPruneMode::None`, and
\* the return to main's loop.
AfterPruneImages(bpm) == IF bpm # "None" THEN "prune_build" ELSE "sleeping"

\* housekeeping: `if images_prune_mode != ImagesPruneMode::None`.
AfterUpdateImages(ipm, bpm) ==
    IF ipm # "None" THEN "prune_images" ELSE AfterPruneImages(bpm)

\* housekeeping: `if update_mode != ContainersUpdateMode::None`.
AfterConnect(mode, ipm, bpm) ==
    IF mode # "None" THEN "list" ELSE AfterUpdateImages(ipm, bpm)

\* update_images: `for container in containers`: the next record when one
\* is left, the end of update_images otherwise.
ForNext(n_taken, len) == IF n_taken < len THEN "loop" ELSE "refresh_done"

\* A variant of AfterListError: the error leaves housekeeping, too.
AfterListErrorLeavesRound == "sleeping"

\* update_images: the Err arm of get_all_containers logs and returns to
\* housekeeping.
AfterListError == "refresh_done"

\* A variant of Continue: `return` in place of `continue`.
ContinueReturns(n_taken, len) == "refresh_done"

\* update_images: `continue`.
Continue(n_taken, len) == ForNext(n_taken, len)

\* The progress streams of create_image: every item is Ok (TRUE) or Err.
PullStreams == UNION {[1..n -> BOOLEAN] : n \in 0..MaxStream}

\* A variant of PullResult: only the last item of the stream counts.
PullResultLastItem(stream) ==
    stream = <<>> \/ stream[Len(stream)]

\* pull_image: the stream is read to its end; the first Err item is
\* returned, Ok(()) when there is none.
PullResult(stream) == \A i \in 1..Len(stream) : stream[i]

\* update_images: the Err arm after pull_image logs and continues.
PullAborts(ok) == ~ok

\* update_images after the second inspect_image: `continue` on Err and on
\* an unchanged digest, update_container in mode Update, the warning and
\* the next record otherwise.
AfterSecondInspect(mode, ok, latest, current, n_taken, len) ==
    IF ~ok THEN Continue(n_taken, len)
    ELSE IF DigestUnchanged(latest, current) THEN Continue(n_taken, len)
    ELSE IF ShouldRecreate(mode) THEN "inspect_container"
    ELSE ForNext(n_taken, len)

\* A variant of RemoveAborts: the error of remove_container is dropped.
RemoveAbortsNever(ok) == FALSE

\* A variant of CreateAborts: the error of create_container is dropped.
CreateAbortsNever(ok) == FALSE

\* update_container: the `?` after each runtime call.
StopAborts(ok) == ~ok

RemoveAborts(ok) == ~ok

CreateAborts(ok) == ~ok

StartAborts(ok) == ~ok

\* ---------------------------------------------------------------- actions

\* main: the startup checks (socket, schedule), then the startup round when
\* MAID_RUN_ON_STARTUP is "true", then the loop.
Main ==
    /\ pc = "main"
    /\ \E socket_ok \in BOOLEAN, schedule_ok \in BOOLEAN, run_on_startup \in BOOLEAN :
        pc' = IF ~socket_ok \/ ~schedule_ok THEN "panicked"
              ELSE IF run_on_startup THEN "housekeeping"
              ELSE "sleeping"
    /\ UNCHANGED <<env_vars, list_vars, taken, container, latest_digest,
                   uc_vars, uc_result, calls, round_calls>>

\* A variant of Wake: the trigger does not wait for the round to return.
WakeDuringRound ==
    /\ pc \notin {"main", "panicked", "housekeeping"}
    /\ pc' = "housekeeping"
    /\ UNCHANGED <<env_vars, list_vars, taken, container, latest_digest,
                   uc_vars, uc_result, calls, round_calls>>

\* main: the loop body: the sleep until the next trigger is over.
Wake ==
    /\ pc = "sleeping"
    /\ pc' = "housekeeping"
    /\ UNCHANGED <<env_vars, list_vars, taken, container, latest_digest,
                   uc_vars, uc_result, calls, round_calls>>

\* housekeeping: reads the modes, connects, and picks the first duty.
Housekeeping ==
    /\ pc = "housekeeping"
    /\ \E mode \in UpdateModes, ipm \in ImagesPruneModes,
          bpm \in BuildPruneModes, socket_ok \in BOOLEAN :
        /\ update_mode' = mode
        /\ images_prune_mode' = ipm
        /\ build_cache_prune_mode' = bpm
        /\ pc' = IF socket_ok THEN AfterConnect(mode, ipm, bpm) ELSE "panicked"
    /\ self_id' = None
    /\ listed' = "no"
    /\ containers_len' = 0
    /\ taken' = 0
    /\ container' = NoContainer
    /\ latest_digest' = None
    /\ create_options' = NoOptions
    /\ create_body' = NoBody
    /\ create_response' = NoResponse
    /\ uc_result' = None
    /\ calls' = <<>>
    /\ round_calls' = <<>>

\* update_images: reads HOSTNAME and lists the containers.
ListContainers ==
    /\ pc = "list"
    /\ \E sid \in Opt(HostNames) : self_id' = sid
    /\ \/ \E len \in 0..MaxContainers :
            /\ listed' = "ok"
            /\ containers_len' = len
            /\ round_calls' = Append(round_calls, Call("list", "all", TRUE, None))
            /\ pc' = ForNext(0, len)
       \/ /\ listed' = "err"
          /\ containers_len' = 0
          /\ round_calls' = Append(round_calls, Call("list", "all", FALSE, None))
          /\ pc' = AfterListError
    /\ UNCHANGED <<update_mode, images_prune_mode, build_cache_prune_mode,
                   taken, container, latest_digest, uc_vars, uc_result, calls>>

\* update_images: the loop takes the next record and applies the skip rules.
Examine ==
    /\ pc = "loop"
    /\ \E c \in ContainerSummaries :
        /\ container' = c
        /\ pc' = IF SkipReason(c, self_id) # "none"
                 THEN Continue(taken + 1, containers_len)
                 ELSE "inspect_image"
    /\ taken' = taken + 1
    /\ calls' = <<>>
    /\ latest_digest' = None
    /\ create_options' = NoOptions
    /\ create_body' = NoBody
    /\ create_response' = NoResponse
    /\ uc_result' = None
    /\ UNCHANGED <<env_vars, list_vars, round_calls>>

\* update_images: the first inspect_image.
InspectImage ==
    /\ pc = "inspect_image"
    /\ \E res \in {Err} \cup {Ok(img) : img \in ImageInspects} :
        /\ calls' = Append(calls,
                           Call("inspect_image", Unwrap(container.image), res.ok,
                                IF res.ok THEN res.val.repo_digests ELSE None))
        /\ pc' = IF SkipsAfterFirstInspect(res)
                 THEN Continue(taken, containers_len)
                 ELSE "pull"
    /\ UNCHANGED <<env_vars, list_vars, taken, container, latest_digest,
                   uc_vars, uc_result, round_calls>>

\* update_images: pull_image.
PullImage ==
    /\ pc = "pull"
    /\ \E stream \in PullStreams :
        /\ calls' = Append(calls,
                           Call("pull", FullImageName(Unwrap(container.image)),
                                PullResult(stream),
                                IF \E i \in 1..Len(stream) : ~stream[i]
                                THEN Some("error") ELSE None))
        /\ pc' = IF PullAborts(PullResult(stream))
                 THEN Continue(taken, containers_len)
                 ELSE "inspect_pulled"
    /\ UNCHANGED <<env_vars, list_vars, taken, container, latest_digest,
                   uc_vars, uc_result, round_calls>>

\* update_images: the inspect_image after the pull, the digest comparison
\* and the update mode check.
InspectPulled ==
    /\ pc = "inspect_pulled"
    /\ \E res \in {Err} \cup {Ok(img) : img \in ImageInspects} :
        /\ calls' = Append(calls,
                           Call("inspect_image", Unwrap(container.image), res.ok,
                                IF res.ok THEN res.val.id ELSE None))
        /\ latest_digest' = IF res.ok THEN Some(UnwrapOr(res.val.id, "")) ELSE None
        /\ pc' = AfterSecondInspect(update_mode, res.ok,
                                    IF res.ok THEN UnwrapOr(res.val.id, "") ELSE "",
                                    Unwrap(container.image_id),
                                    taken, containers_len)
    /\ UNCHANGED <<env_vars, list_vars, taken, container, uc_vars, uc_result,
                   round_calls>>

\* update_images on Err(e) of update_container: logs and `continue`.
ReturnErr(stage) ==
    /\ uc_result' = Some(stage)
    /\ pc' = Continue(taken, containers_len)

\* update_images on Ok(_) of update_container: the end of the loop body.
ReturnOk ==
    /\ uc_result' = Some("ok")
    /\ pc' = ForNext(taken, containers_len)

\* A variant of InspectContainer: an unusable snapshot is found out only
\* after the stop.
InspectContainerUnchecked ==
    /\ pc = "inspect_container"
    /\ \E res \in {Err} \cup {Ok(ci) : ci \in ContainerInspects} :
        /\ calls' = Append(calls, Call("inspect_container", Unwrap(container.id), res.ok,
                                              IF res.ok THEN Some(res.val) ELSE None))
        /\ IF SnapshotError(res) # ""
           THEN UNCHANGED <<create_options, create_body>>
           ELSE /\ create_options' = CreateOptions(res.val)
                /\ create_body' = Some(CreateBody(Unwrap(res.val.config),
                                                  Unwrap(res.val.network_settings),
                                                  Unwrap(res.val.host_config)))
    /\ pc' = "stop"
    /\ UNCHANGED <<env_vars, list_vars, taken, container, latest_digest,
                   create_response, uc_result, round_calls>>

\* update_container: inspect_container, the three required parts, and the
\* options and body of the calls to come.
InspectContainer ==
    /\ pc = "inspect_container"
    /\ \E res \in {Err} \cup {Ok(ci) : ci \in ContainerInspects} :
        /\ calls' = Append(calls, Call("inspect_container", Unwrap(container.id), res.ok,
                                              IF res.ok THEN Some(res.val) ELSE None))
        /\ IF SnapshotError(res) # ""
           THEN /\ ReturnErr(SnapshotError(res))
                /\ UNCHANGED <<create_options, create_body>>
           ELSE /\ create_options' = CreateOptions(res.val)
                /\ create_body' = Some(CreateBody(Unwrap(res.val.config),
                                                  Unwrap(res.val.network_settings),
                                                  Unwrap(res.val.host_config)))
                /\ pc' = "stop"
                /\ UNCHANGED uc_result
    /\ UNCHANGED <<env_vars, list_vars, taken, container, latest_digest,
                   create_response, round_calls>>

\* update_container: stop_container.
StopContainer ==
    /\ pc = "stop"
    /\ \E ok \in BOOLEAN :
        /\ calls' = Append(calls, Call("stop", Unwrap(container.id), ok, None))
        /\ IF StopAborts(ok)
           THEN ReturnErr("stop")
           ELSE pc' = "remove" /\ UNCHANGED uc_result
    /\ UNCHANGED <<env_vars, list_vars, taken, container, latest_digest,
                   uc_vars, round_calls>>

\* update_container: remove_container.
RemoveContainer ==
    /\ pc = "remove"
    /\ \E ok \in BOOLEAN :
        /\ calls' = Append(calls, Call("remove", Unwrap(container.id), ok, None))
        /\ IF RemoveAborts(ok)
           THEN ReturnErr("remove")
           ELSE pc' = "create" /\ UNCHANGED uc_result
    /\ UNCHANGED <<env_vars, list_vars, taken, container, latest_digest,
                   uc_vars, round_calls>>

\* update_container: create_container, then the check of the state the
\* listing recorded.
CreateContainer ==
    /\ pc = "create"
    /\ \E res \in {Err} \cup {Ok([id |-> id]) : id \in NewContainerIds} :
        /\ calls' = Append(calls,
                           Call("create", [options |-> create_options,
                                           body |-> Unwrap(create_body)], res.ok,
                                IF res.ok THEN Some(res.val) ELSE None))
        /\ IF CreateAborts(res.ok)
           THEN /\ ReturnErr("create")
                /\ UNCHANGED create_response
           ELSE /\ create_response' = Some(res.val)
                /\ IF WasRunning(Unwrap(container.state))
                   THEN pc' = "start" /\ UNCHANGED uc_result
                   ELSE ReturnOk
    /\ UNCHANGED <<env_vars, list_vars, taken, container, latest_digest,
                   create_options, create_body, round_calls>>

\* update_container: start_container.
StartContainer ==
    /\ pc = "start"
    /\ \E ok \in BOOLEAN :
        /\ calls' = Append(calls,
                           Call("start", StartTarget(Unwrap(container.id),
                                                     Unwrap(create_response)), ok, None))
        /\ IF StartAborts(ok) THEN ReturnErr("start") ELSE ReturnOk
    /\ UNCHANGED <<env_vars, list_vars, taken, container, latest_digest,
                   uc_vars, round_calls>>

\* update_images returns to housekeeping: its locals are gone.
UpdateImagesReturn ==
    /\ pc = "refresh_done"
    /\ pc' = AfterUpdateImages(images_prune_mode, build_cache_prune_mode)
    /\ self_id' = None
    /\ containers_len' = 0
    /\ taken' = 0
    /\ container' = NoContainer
    /\ latest_digest' = None
    /\ create_options' = NoOptions
    /\ create_body' = NoBody
    /\ create_response' = NoResponse
    /\ uc_result' = None
    /\ calls' = <<>>
    /\ UNCHANGED <<update_mode, images_prune_mode, build_cache_prune_mode,
                   listed, round_calls>>

\* prune_images.
PruneImages ==
    /\ pc = "prune_images"
    /\ \E ok \in BOOLEAN :
        round_calls' = Append(round_calls,
                              Call("prune_images",
                                   [dangling |-> images_prune_mode = "Dangling"], ok, None))
    /\ pc' = AfterPruneImages(build_cache_prune_mode)
    /\ UNCHANGED <<env_vars, list_vars, taken, container, latest_digest,
                   uc_vars, uc_result, calls>>

\* prune_build_cache.
PruneBuildCache ==
    /\ pc = "prune_build"
    /\ \E ok \in BOOLEAN :
        round_calls' = Append(round_calls, Call("prune_build", [all |-> TRUE], ok, None))
    /\ pc' = "sleeping"
    /\ UNCHANGED <<env_vars, list_vars, taken, container, latest_digest,
                   uc_vars, uc_result, calls>>

Next ==
    \/ Main
    \/ Wake
    \/ Housekeeping
    \/ ListContainers
    \/ Examine
    \/ InspectImage
    \/ PullImage
    \/ InspectPulled
    \/ InspectContainer
    \/ StopContainer
    \/ RemoveContainer
    \/ CreateContainer
    \/ StartContainer
    \/ UpdateImagesReturn
    \/ PruneImages
    \/ PruneBuildCache

Spec == Init /\ [][Next]_vars

\* The process keeps running: main is single-threaded and awaits every
\* runtime call, and every runtime call and every sleep returns.
FairSpec == Spec /\ WF_vars(Next)

\* ------------------------------------------------------------ pull_image

\* pull_image's parameter image_name: [registry[:port]/]path[:tag].
RefRegistries == {<<>>, <<"h", "/">>, <<"h", ":", "5", "/">>}

RefComponents == {<<"a">>, <<"b">>}

RECURSIVE RefPaths(_)
RefPaths(n) ==
    IF n = 1 THEN RefComponents
    ELSE RefPaths(n - 1) \cup
         {p \o <<"/">> \o c : p \in RefPaths(n - 1), c \in RefComponents}

RefTags == {<<>>, <<":", "t">>, <<":", "l", "a", "t", "e", "s", "t">>}

PullRefs ==
    {r \o p \o t : r \in RefRegistries, p \in RefPaths(MaxPath), t \in RefTags}

\* update_images is about to call pull_image for the only record of the
\* listing; the record's image reference is any of PullRefs.
PullInit ==
    /\ pc = "pull"
    /\ update_mode \in {"Notify", "Update", "Label"}
    /\ images_prune_mode = "None"
    /\ build_cache_prune_mode = "None"
    /\ self_id = None
    /\ listed = "ok"
    /\ containers_len = 1
    /\ taken = 1
    /\ \E ref \in PullRefs :
           container = [id |-> Some(<<"b">>), names |-> Some(<< <<"/", "w">> >>),
                        state |-> Some(RUNNING), image |-> Some(ref),
                        image_id |-> Some("sha:1")]
    /\ latest_digest = None
    /\ create_options = NoOptions
    /\ create_body = NoBody
    /\ create_response = NoResponse
    /\ uc_result = None
    /\ calls = <<>>
    /\ round_calls = <<Call("list", "all", TRUE, None)>>

PullNext == PullImage

SpecPull == PullInit /\ [][PullNext]_vars

\* ------------------------------------------------- the claims' vocabulary

\* `calls` holds the runtime calls issued for the record the loop holds: it
\* is emptied when the loop takes the next record, and a record is taken
\* once per round, so what holds of `calls` in every state holds of every
\* record of the round.

Mutating == {"stop", "remove", "create", "start"}

Idx == 1..Len(calls)

HasCall(op) == \E k \in Idx : calls[k].op = op

\* The loop has left the record it holds: the next record, or the end.
WentOn ==
    /\ taken < containers_len => pc = "loop"
    /\ taken = containers_len => pc = "refresh_done"

InRefresh == taken >= 1

\* -------------------------------------------------------------------- C1

\* C1: remove is issued only after a successful stop of the same container
\* and create only after a successful remove of it; after a failed stop or
\* a failed remove no further stop, remove, create or start is issued for
\* that container.
C1_OrderedRecreation ==
    \A k \in Idx :
        /\ calls[k].op = "remove" =>
              \E j \in 1..(k - 1) :
                  calls[j].op = "stop" /\ calls[j].ok /\ calls[j].arg = calls[k].arg
        /\ calls[k].op = "create" =>
              \E j \in 1..(k - 1) :
                  calls[j].op = "remove" /\ calls[j].ok
                  /\ calls[j].arg = Unwrap(container.id)
        /\ (calls[k].op \in {"stop", "remove"} /\ ~calls[k].ok) =>
              \A j \in (k + 1)..Len(calls) : calls[j].op \notin Mutating

\* C1 witness: stop succeeded, remove failed, nothing followed and the loop
\* is ready for the next record.
C1_Witness ==
    /\ Len(calls) >= 2
    /\ calls[Len(calls) - 1].op = "stop" /\ calls[Len(calls) - 1].ok
    /\ calls[Len(calls)].op = "remove" /\ ~calls[Len(calls)].ok
    /\ uc_result = Some("remove")
    /\ pc = "loop"

\* -------------------------------------------------------------------- C2

\* C2: in a round whose update mode is None, Notify or Label no stop,
\* remove, create or start (nor the container inspect before them) is
\* issued for any container.
C2_OnlyUpdateRecreates ==
    update_mode # "Update" =>
        \A k \in Idx : calls[k].op \notin Mutating \cup {"inspect_container"}

\* C2 witness: Notify mode, the inspect after the pull found another image
\* ID than the container's, and the loop went on.
C2_Witness ==
    /\ update_mode = "Notify"
    /\ IsSome(latest_digest)
    /\ Unwrap(latest_digest) # Unwrap(container.image_id)
    /\ Len(calls) = 3
    /\ WentOn

\* -------------------------------------------------------------------- C3

\* C3: start is issued only for a record whose listed state was running;
\* for any other listed state a successful create ends update_container
\* with Ok and no start.
C3_StartOnlyIfWasRunning ==
    /\ HasCall("start") => container.state = Some(RUNNING)
    /\ pc = "start" => container.state = Some(RUNNING)
    /\ \A k \in Idx :
          (calls[k].op = "create" /\ calls[k].ok /\ container.state # Some(RUNNING)) =>
              /\ k = Len(calls)
              /\ uc_result = Some("ok")
              /\ WentOn

\* C3 witness: a record listed as exited was recreated and not started.
C3_Witness ==
    /\ container.state = Some("exited")
    /\ HasCall("create")
    /\ uc_result = Some("ok")

\* -------------------------------------------------------------------- C4

LacksField(c) ==
    IsNone(c.id) \/ IsNone(c.names) \/ IsNone(c.state) \/ IsNone(c.image)

\* C4: for a record without identifier, name, state or image reference no
\* runtime call is issued, in every update mode, and the loop goes on.
C4_IncompleteRecordSkipped ==
    (InRefresh /\ LacksField(container)) => (calls = <<>> /\ WentOn)

\* C4 witness: in Update mode a record that lacks only its name (and is not
\* the agent's own) was skipped with records left.
C4_Witness ==
    /\ update_mode = "Update"
    /\ InRefresh
    /\ self_id = None
    /\ IsSome(container.id) /\ IsNone(container.names)
    /\ IsSome(container.state) /\ IsSome(container.image)
    /\ IsSome(container.image_id)
    /\ pc = "loop"

\* -------------------------------------------------------------------- C5

\* The identifier starts with HOSTNAME.
IdHasHostnamePrefix ==
    /\ IsSome(self_id)
    /\ IsSome(container.id)
    /\ Len(Unwrap(self_id)) <= Len(Unwrap(container.id))
    /\ SubSeq(Unwrap(container.id), 1, Len(Unwrap(self_id))) = Unwrap(self_id)

\* C5: a record whose identifier starts with HOSTNAME gets no runtime call
\* (no image inspect, pull, container inspect, stop, remove, create, start)
\* in any update mode, at any place of the listing.
C5_OwnContainerUntouched ==
    (InRefresh /\ IdHasHostnamePrefix) => (calls = <<>> /\ WentOn)

\* C5 witness: Update mode, HOSTNAME a proper, non-empty prefix of the
\* identifier of the second record, which is complete.
C5_Witness ==
    /\ update_mode = "Update"
    /\ taken = 2
    /\ IdHasHostnamePrefix
    /\ Unwrap(self_id) # <<>>
    /\ Unwrap(self_id) # Unwrap(container.id)
    /\ ~LacksField(container)
    /\ IsSome(container.image_id)

\* -------------------------------------------------------------------- C6

\* C6: stop, remove, create and start are issued for a record only when the
\* image ID read by the inspect after the pull differs from the image ID
\* the container was using.
C6_RecreatedOnlyIfNewer ==
    \A k \in Idx :
        calls[k].op \in Mutating =>
            /\ IsSome(latest_digest)
            /\ Unwrap(latest_digest) # Unwrap(container.image_id)

\* -------------------------------------------------------------------- C7

\* C7: when the first image inspect of a record fails, no pull of its image
\* and no stop, remove, create or start is issued for it.  (That the loop
\* goes on to the next record is C9.)
C7_FailedInspectSkips ==
    (Len(calls) >= 1 /\ calls[1].op = "inspect_image" /\ ~calls[1].ok) =>
        \A k \in Idx : calls[k].op \notin Mutating \cup {"pull"}

\* -------------------------------------------------------------------- C8

\* C8: when the first image inspect succeeds with no repo digests nothing
\* else (no pull, stop, remove, create, start) is issued for the record, in
\* every update mode, and the loop goes on.
C8_NoRepoDigestsSkips ==
    (/\ Len(calls) >= 1
     /\ calls[1].op = "inspect_image"
     /\ calls[1].ok
     /\ (calls[1].ret = None \/ calls[1].ret = Some(<<>>))) =>
        (Len(calls) = 1 /\ WentOn)

\* C8 witness: Update mode, the inspect returned a present, empty list.
C8_Witness ==
    /\ update_mode = "Update"
    /\ Len(calls) = 1
    /\ calls[1].op = "inspect_image"
    /\ calls[1].ok
    /\ calls[1].ret = Some(<<>>)
    /\ pc = "loop"

\* -------------------------------------------------------------------- C9

RefreshPcs ==
    {"loop", "inspect_image", "pull", "inspect_pulled", "inspect_container",
     "stop", "remove", "create", "start"}

\* C9: whatever happens to one record (a skip, a failed image inspect,
\* pull, container inspect, stop, remove, create or start), the loop is
\* left only when every record of the listing has been taken, and the
\* records are taken one by one in listing order.
C9_RoundGoesOn ==
    [][/\ (pc \in RefreshPcs /\ pc' \notin RefreshPcs) =>
              (pc' = "refresh_done" /\ taken' = containers_len')
       /\ (pc \in RefreshPcs /\ taken' # taken) =>
              (pc = "loop" /\ taken' = taken + 1 /\ taken' <= containers_len)
       /\ (pc \in RefreshPcs /\ pc' \in RefreshPcs) =>
              containers_len' = containers_len]_vars

\* C9 witness: create failed for a record (the old container is gone) and
\* the loop is about to take the next record.
C9_Witness ==
    /\ uc_result = Some("create")
    /\ taken < containers_len
    /\ pc = "loop"

\* ------------------------------------------------------------------- C10

\* C10: when update_container returns Ok for a record listed as running,
\* the calls after the container inspect are exactly stop(old id),
\* remove(old id), create(name and platform of the inspect result, body
\* with its host configuration and networks), start(id returned by create),
\* all successful; the runtime's new identifiers differ from the listed
\* ones, so start is not given the old identifier.  A successful start ends
\* update_container with Ok.
C10_RecreationSequence ==
    /\ (uc_result = Some("ok") /\ container.state = Some(RUNNING)) =>
          \E k \in Idx :
              /\ calls[k].op = "inspect_container" /\ calls[k].ok
              /\ \A j \in 1..k : calls[j].op \notin Mutating
              /\ Len(calls) = k + 4
              /\ calls[k + 1] = Call("stop", Unwrap(container.id), TRUE, None)
              /\ calls[k + 2] = Call("remove", Unwrap(container.id), TRUE, None)
              /\ calls[k + 3].op = "create" /\ calls[k + 3].ok
              /\ calls[k + 3].arg.options.name = UnwrapOr(Unwrap(calls[k].ret).name, <<>>)
              /\ calls[k + 3].arg.options.platform =
                     UnwrapOr(Unwrap(calls[k].ret).platform, "")
              /\ calls[k + 3].arg.body.host_config = Unwrap(calls[k].ret).host_config
              /\ calls[k + 3].arg.body.networking_config =
                     Some([endpoints_config |->
                              Unwrap(Unwrap(calls[k].ret).network_settings).networks])
              /\ calls[k + 4] = Call("start", Unwrap(calls[k + 3].ret).id, TRUE, None)
              /\ calls[k + 4].arg # Unwrap(container.id)
    /\ (Len(calls) >= 1 /\ calls[Len(calls)].op = "start" /\ calls[Len(calls)].ok) =>
          (uc_result = Some("ok") /\ update_mode = "Update" /\ WentOn)

\* C10 witness: a running record was recreated under the name and platform
\* the inspect returned, and started.
C10_Witness ==
    /\ uc_result = Some("ok")
    /\ container.state = Some(RUNNING)
    /\ HasCall("start")
    /\ create_options.name = <<"/", "w">>
    /\ create_options.platform = "linux"

\* ------------------------------------------------------------------- C11

RoundReturned == pc \in {"sleeping", "housekeeping"}

HasRoundCall(op) == \E k \in 1..Len(round_calls) : round_calls[k].op = op

\* C12: when the listing of the containers fails, the refresh issues no
\* further runtime call (no record is taken), and the prune duties enabled
\* for the round are still invoked before the round returns.
C12_ListFailureKeepsPrunes ==
    listed = "err" =>
        /\ round_calls[1].op = "list" /\ ~round_calls[1].ok
        /\ calls = <<>> /\ taken = 0 /\ pc \notin RefreshPcs
        /\ \A k \in 2..Len(round_calls) :
               round_calls[k].op \in {"prune_images", "prune_build"}
        /\ (pc = "prune_build" /\ images_prune_mode # "None")
               => HasRoundCall("prune_images")
        /\ RoundReturned =>
               /\ images_prune_mode # "None" => HasRoundCall("prune_images")
               /\ build_cache_prune_mode # "None" => HasRoundCall("prune_build")

\* C12 witness: a round whose listing failed returned after both prunes.
C12_Witness ==
    /\ listed = "err"
    /\ pc = "sleeping"
    /\ Len(round_calls) = 3
    /\ round_calls[2].op = "prune_images"
    /\ round_calls[3].op = "prune_build"

\* ------------------------------------------------------------------- C13

RoundPcs == {"list", "refresh_done", "prune_images", "prune_build"} \cup RefreshPcs

InRound == pc \in RoundPcs

\* C13: rounds never interleave.  A round is triggered only when none is
\* in progress (at startup or out of the sleep); the scheduler goes to
\* sleep only out of main or when the round has returned, its enabled
\* prunes included; a runtime call is issued only by the round in progress,
\* so no call of the next round precedes the last call of this one.
C13_RoundsNeverInterleave ==
    [][ /\ (pc' = "housekeeping") => (pc \in {"main", "sleeping"})
        /\ (pc' = "sleeping") =>
               \/ pc = "main"
               \/ pc = "housekeeping" /\ update_mode' = "None"
                     /\ images_prune_mode' = "None"
                     /\ build_cache_prune_mode' = "None"
               \/ pc = "refresh_done" /\ images_prune_mode = "None"
                     /\ build_cache_prune_mode = "None"
               \/ pc = "prune_images" /\ build_cache_prune_mode = "None"
               \/ pc = "prune_build"
        /\ (pc = "sleeping") => (pc' = "housekeeping" /\ round_calls' = round_calls)
        /\ (calls' # calls \/ round_calls' # round_calls) =>
               (InRound \/ pc = "housekeeping")
        /\ (InRound /\ ~InRound') => pc' = "sleeping"
      ]_vars

\* C13 witness: the next trigger fired after a round that listed, examined
\* and pruned has returned.
C13_Witness ==
    /\ pc = "housekeeping"
    /\ Len(round_calls) = 3
    /\ round_calls[1].op = "list" /\ round_calls[1].ok

\* ------------------------------------------------------------------- C14

\* C14: once main's startup checks have passed, no failure inside a round
\* ends the process: the process panics in main only.
C14_RoundFailuresNotFatal ==
    [][(pc' = "panicked") => (pc = "main")]_vars

\* ------------------------------------------------------------------- C15

\* The two places where the round reads the update mode, housekeeping's
\* test and the test after the digest comparison, go the same way for
\* every mode of S, whatever the runtime answered; every other step of
\* the round does not read the mode.
ModeBlindStep(S) ==
    /\ (pc = "housekeeping" /\ update_mode' \in S /\ pc' # "panicked") =>
           \A m \in S :
               pc' = AfterConnect(m, images_prune_mode', build_cache_prune_mode')
    /\ (pc = "inspect_pulled" /\ update_mode \in S) =>
           LET answer == calls'[Len(calls')]
           IN  \A m \in S :
                   pc' = AfterSecondInspect(m, answer.ok, UnwrapOr(answer.ret, ""),
                                            Unwrap(container.image_id),
                                            taken, containers_len)

\* C15 as stated: a round in mode Notify or Label issues the same runtime
\* calls as a round in mode None.
C15_ThreeModesAlike ==
    [][ModeBlindStep({"None", "Notify", "Label"})]_vars

\* C15 amended: a round in mode Notify issues the same runtime calls as a
\* round in mode Label (list, image inspect, pull, image inspect, prunes),
\* and neither issues stop, remove, create or start.
C15_NotifyAsLabel ==
    [][ /\ ModeBlindStep({"Notify", "Label"})
        /\ update_mode' \in {"Notify", "Label"} =>
               \A k \in 1..Len(calls') :
                   calls'[k].op \notin Mutating \cup {"inspect_container"}
      ]_vars

\* C15 witness: in mode Label the digest check ran to its end (list, image
\* inspect, pull, image inspect) and the loop went on.
C15_Witness ==
    /\ update_mode = "Label"
    /\ Len(calls) = 3
    /\ calls[2].op = "pull" /\ calls[2].ok
    /\ calls[3].op = "inspect_image" /\ calls[3].ok
    /\ WentOn

\* ------------------------------------------------------------------- C16

\* The answer of a container inspect cannot be used: the call failed, or
\* the result lacks the process configuration, the network settings or the
\* host configuration.
SnapshotUnusable(c) ==
    \/ ~c.ok
    \/ IsNone(Unwrap(c.ret).config)
    \/ IsNone(Unwrap(c.ret).network_settings)
    \/ IsNone(Unwrap(c.ret).host_config)

\* C16: when the container inspect fails or its result lacks the process
\* configuration, the network settings or the host configuration,
\* update_container returns an error and the inspect is the last runtime
\* call for the container: no stop, remove, create or start is issued.
C16_UnusableSnapshotAborts ==
    \A k \in Idx :
        (calls[k].op = "inspect_container" /\ SnapshotUnusable(calls[k])) =>
            /\ k = Len(calls)
            /\ uc_result \in {Some("inspect"), Some("config"),
                              Some("network_settings"), Some("host_config")}
            /\ \A op \in Mutating : ~HasCall(op)
            /\ WentOn

\* C16 witness: the container inspect succeeded without a host
\* configuration and update_container returned the error.
C16_Witness ==
    /\ calls # <<>>
    /\ calls[Len(calls)].op = "inspect_container"
    /\ calls[Len(calls)].ok
    /\ IsSome(Unwrap(calls[Len(calls)].ret).config)
    /\ IsSome(Unwrap(calls[Len(calls)].ret).network_settings)
    /\ IsNone(Unwrap(calls[Len(calls)].ret).host_config)
    /\ uc_result = Some("host_config")

\* ------------------------------------------------------------------- C17

\* The pull logged at k failed: the runtime's stream held an error.
PullFailedAt(k) ==
    calls[k].op = "pull" /\ (~calls[k].ok \/ IsSome(calls[k].ret))

\* The image inspect logged at k follows the pull and failed.
InspectAfterPullFailedAt(k) ==
    /\ k > 1
    /\ calls[k].op = "inspect_image"
    /\ calls[k - 1].op = "pull"
    /\ ~calls[k].ok

\* C17: when the pull fails, or the image inspect that follows the pull
\* fails, that call is the last one for the container (no container
\* inspect, stop, remove, create or start) and the loop goes on.
C17_FailedPullSkips ==
    \A k \in Idx :
        (PullFailedAt(k) \/ InspectAfterPullFailedAt(k)) =>
            /\ k = Len(calls)
            /\ \A op \in Mutating : ~HasCall(op)
            /\ WentOn

\* C17 witness: in mode Update the pull of a container's image failed.
C17_Witness ==
    /\ update_mode = "Update"
    /\ Len(calls) = 2
    /\ PullFailedAt(2)
    /\ WentOn

\* In mode Update the image inspect after a successful pull failed.
C17_InspectFailedReached ==
    /\ update_mode = "Update"
    /\ Len(calls) = 3
    /\ calls[2].ok
    /\ InspectAfterPullFailedAt(3)

\* ------------------------------------------------------------------- C18

CountCalls(op) == Cardinality({k \in Idx : calls[k].op = op})

\* C18: nothing is retried or rolled back.  For the record the loop holds
\* (taken once per round) at most one pull, stop, remove, create and start
\* is issued; a failed stop, remove, create or start is the last runtime
\* call for that container, update_container returns its error and the
\* loop goes on; after a failed create the old container stays removed and
\* there is no new one.
C18_NoRetryNoRollback ==
    /\ \A op \in Mutating \cup {"pull", "inspect_container"} : CountCalls(op) <= 1
    /\ \A k \in Idx :
           (calls[k].op \in Mutating /\ ~calls[k].ok) =>
               /\ k = Len(calls)
               /\ uc_result = Some(calls[k].op)
               /\ WentOn
               /\ calls[k].op = "create" =>
                      /\ create_response = NoResponse
                      /\ \E j \in 1..(k - 1) : calls[j].op = "remove" /\ calls[j].ok

\* C18 witness: create failed after the old container was stopped and
\* removed; nothing followed.
C18_Witness ==
    /\ Len(calls) = 7
    /\ calls[5].op = "stop" /\ calls[5].ok
    /\ calls[6].op = "remove" /\ calls[6].ok
    /\ calls[7].op = "create" /\ ~calls[7].ok
    /\ uc_result = Some("create")
    /\ WentOn

\* ------------------------------------------------------------------- C19

\* The reference carries an explicit tag: a colon after its last slash.
HasExplicitTag(ref) ==
    \E k \in 1..Len(ref) :
        /\ ref[k] = ":"
        /\ \A j \in (k + 1)..Len(ref) : ref[j] # "/"

\* C19: pull_image pulls the reference with ":latest" appended exactly
\* when the reference carries no explicit tag, and unchanged when it
\* carries one, whatever the shape of the reference (a registry host with
\* a port and no tag included).
C19_LatestIffNoTag ==
    \A k \in Idx :
        calls[k].op = "pull" =>
            LET ref == Unwrap(container.image)
            IN  calls[k].arg = IF HasExplicitTag(ref) THEN ref
                               ELSE ref \o LatestTag

\* ------------------------------------------------------------------- C20

\* C20: every round that starts eventually returns to the scheduler (which
\* then computes the next trigger and sleeps), provided each runtime call
\* eventually returns.
C20_RoundReturns ==
    (pc = "housekeeping") ~> (pc = "sleeping")

\* Once housekeeping has connected, the round returns: the loop takes each
\* record of the listing once and the prunes return.
RoundReturnsOnceConnected ==
    InRound ~> (pc = "sleeping")

\* ------------------------------------------------------------------- C21

\* The record the loop holds has every field the loop asks for.
CompleteRecord == ~LacksField(container) /\ IsSome(container.image_id)

\* The record the loop holds was not skipped at the head of the loop body:
\* it went on to the image inspect.
NotSkipped == pc = "inspect_image" \/ calls # <<>>

\* C21: the self-container rule skips a record exactly when its identifier
\* starts with the value of HOSTNAME.  With HOSTNAME unset the rule skips
\* nothing: every complete record goes on to the image inspect.  With
\* HOSTNAME set to the empty string every record is left without any
\* runtime call (no image inspect, pull, stop, remove, create or start) and
\* the loop goes on.
C21_SelfRuleByPrefix ==
    InRefresh =>
        /\ IdHasHostnamePrefix => (calls = <<>> /\ WentOn)
        /\ (CompleteRecord /\ ~IdHasHostnamePrefix) => NotSkipped
        /\ (self_id = None /\ CompleteRecord) => NotSkipped
        /\ (self_id = Some(<<>>)) => (calls = <<>> /\ WentOn)

\* C21 witness: HOSTNAME is the empty string, update mode Update: the
\* second record of the listing, complete, was skipped without a call.
C21_Witness ==
    /\ update_mode = "Update"
    /\ self_id = Some(<<>>)
    /\ taken = 2
    /\ CompleteRecord
    /\ calls = <<>>
    /\ WentOn

\* HOSTNAME is unset and a complete record went on to be recreated.
C21_UnsetReached ==
    /\ self_id = None
    /\ InRefresh
    /\ CompleteRecord
    /\ HasCall("stop")

=============================================================================
